---- MODULE Spec2Model ----
(***************************************************************************)
(* DESTRA peek/poke protocol, embedded side.                               *)
(*                                                                         *)
(* Two builds of the protocol are modelled, selected by `impl`:            *)
(*   "ref"  - arduino/sample/destra_protocol.ino (echoes accepted bytes,   *)
(*            no telemetry, unguarded value buffer);                       *)
(*   "test" - arduino/destra_protocol_test/sample.ino (instrumented:       *)
(*            telemetry ring buffer, GET_PERF_LOG, guarded value buffer).  *)
(*                                                                         *)
(* Bytes are naturals 0..255, numbers are written in decimal with the      *)
(* source's hexadecimal in a comment.  Target RAM is a sparse map: the     *)
(* bytes stored by POKE over a fixed power-up image.  The protocol's own   *)
(* globals are taken to lie outside the addresses the host probes.         *)
(***************************************************************************)
EXTENDS Integers, Sequences, FiniteSets, TLC

\* ------------------------------------------------------------------------
\* Program constants
\* ------------------------------------------------------------------------
MAGIC_HIGH == 202
\* 0xCA, first byte of SERIAL_START_MARKER
MAGIC_LOW == 254
\* 0xFE, second byte of SERIAL_START_MARKER
CMD_PEEK == 241
\* 0xF1
CMD_POKE == 242
\* 0xF2
CMD_GET_PERF_LOG == 243
\* 0xF3
STATUS_SUCCESS == 0
STATUS_ADDRESS_RANGE_ERROR == 1
STATUS_SIZE_ERROR == 2
RAM_START == 256
\* 0x100, lowest accepted address
RAM_END == 2303
\* 0x8FF, highest accepted address
MAX_SIZE == 8
\* largest accepted size (destraSize > 8 is rejected)
VALUE_BUFFER_LEN == 8
\* uint8_t destraValueBuffer[8]
PERF_BUFFER_SIZE == 100
PERF_GUARD == 99
\* the literal in `if (perfIndex < 99)`
FRAME_PERIOD_US == 10000
\* loop() pads every frame to 10000 us

\* enum DestraState, in declaration order
WAIT_START_HIGH == 0
WAIT_START_LOW == 1
WAIT_COMMAND == 2
WAIT_ADDRESS_LOW == 3
WAIT_ADDRESS_HIGH == 4
WAIT_SIZE == 5
WAIT_VALUE == 6
PROCESS_REQUEST == 7

Byte == 0..255

\* ------------------------------------------------------------------------
\* Bounds of the model
\* ------------------------------------------------------------------------
MaxRequests == 2
\* requests the host sends in one run of Spec

\* ------------------------------------------------------------------------
\* Fixed-width arithmetic and byte helpers
\* ------------------------------------------------------------------------
U8(n) == n % 256

U16(n) == n % 65536

\* unsigned long: 2^32 is beyond the range of TLC's integers, and every
\* unsigned long of the sketch (frame counter, microsecond clock, and the
\* later-minus-earlier differences it forms) stays far below 2^31 within the
\* bounds explored, so no reduction applies
U32(n) == n

\* the n low-order bytes of v, least significant first (AVR is little-endian)
RECURSIVE LittleEndian(_, _)
LittleEndian(v, n) ==
    IF n = 0 THEN <<>> ELSE <<v % 256>> \o LittleEndian(v \div 256, n - 1)

\* Variant: the two address bytes taken high byte first.
CombineAddressHighFirst(lo, hi) == U16(hi + lo * 256)

\* destraAddress = addressLow | (addressHigh << 8), stored in a uint16_t
CombineAddress(lo, hi) == U16(lo + hi * 256)

RECURSIVE Flatten(_)
Flatten(ss) ==
    IF ss = <<>> THEN <<>> ELSE Head(ss) \o Flatten(Tail(ss))

\* ------------------------------------------------------------------------
\* Packet framer: the parser globals and one pass of the switch in
\* destraHandler.  A step yields
\*   f     the parser globals after the byte
\*   echo  what the step wrote to Serial (reference build only)
\*   start TRUE when the step took the instrumented "new command" branch
\*   oob   TRUE when the step stored outside destraValueBuffer
\* ------------------------------------------------------------------------
ZeroBuffer == [i \in 1..VALUE_BUFFER_LEN |-> 0]

InitFramer ==
    [ destraState      |-> WAIT_START_HIGH,
      destraCommand    |-> 0,
      destraAddress    |-> 0,
      destraSize       |-> 0,
      addressLow       |-> 0,
      addressHigh      |-> 0,
      destraValueBuffer |-> ZeroBuffer,
      destraValueIndex |-> 0 ]

Outcome(f, echo, start, oob) ==
    [f |-> f, echo |-> echo, start |-> start, oob |-> oob]

\* Variant: both builds writing back the bytes they accept.
EchoInBothBuilds(im, b) == <<b>>

\* only the reference build echoes, and only where it calls Serial.write(inByte)
Echo(im, b) == IF im = "ref" THEN <<b>> ELSE <<>>

OnWaitStartHigh(im, f, b) ==
    IF b = MAGIC_HIGH
    THEN Outcome([f EXCEPT !.destraState = WAIT_START_LOW], Echo(im, b), im = "test", FALSE)
    ELSE Outcome(f, <<>>, FALSE, FALSE)

OnWaitStartLow(im, f, b) ==
    IF b = MAGIC_LOW
    THEN Outcome([f EXCEPT !.destraState = WAIT_COMMAND], Echo(im, b), FALSE, FALSE)
    ELSE Outcome([f EXCEPT !.destraState = WAIT_START_HIGH], <<>>, FALSE, FALSE)

OnWaitCommand(im, f, b) ==
    LET g == [f EXCEPT !.destraCommand = b] IN
    IF b = CMD_PEEK \/ b = CMD_POKE
    THEN Outcome([g EXCEPT !.destraState = WAIT_ADDRESS_LOW], Echo(im, b), FALSE, FALSE)
    ELSE IF im = "test" /\ b = CMD_GET_PERF_LOG
    THEN Outcome([g EXCEPT !.destraState = PROCESS_REQUEST], <<>>, FALSE, FALSE)
    ELSE Outcome([g EXCEPT !.destraState = WAIT_START_HIGH], <<>>, FALSE, FALSE)

OnWaitAddressLow(im, f, b) ==
    Outcome([f EXCEPT !.addressLow = b, !.destraState = WAIT_ADDRESS_HIGH],
            Echo(im, b), FALSE, FALSE)

OnWaitAddressHigh(im, f, b) ==
    Outcome([f EXCEPT !.addressHigh = b,
                      !.destraAddress = CombineAddress(f.addressLow, b),
                      !.destraState = WAIT_SIZE],
            Echo(im, b), FALSE, FALSE)

OnWaitSize(im, f, b) ==
    LET g == [f EXCEPT !.destraSize = b] IN
    IF g.destraCommand = CMD_PEEK
    THEN Outcome([g EXCEPT !.destraState = PROCESS_REQUEST], Echo(im, b), FALSE, FALSE)
    ELSE IF g.destraCommand = CMD_POKE
    THEN Outcome([g EXCEPT !.destraValueIndex = 0, !.destraState = WAIT_VALUE],
                 Echo(im, b), FALSE, FALSE)
    ELSE Outcome([g EXCEPT !.destraState = WAIT_START_HIGH], Echo(im, b), FALSE, FALSE)

\* A store to destraValueBuffer[i] with i >= 8 is undefined behaviour: the
\* byte lands in whatever the build placed behind the buffer.  A layout lists
\* the bytes of parser globals found there, nearest first; a store beyond
\* the list lands in memory the protocol never looks at.  Three builds are
\* explored: nothing of the parser behind the buffer, the globals in
\* declaration order (destraValueIndex is declared next), and the globals in
\* reverse declaration order (enum DestraState is an int, two bytes).
LayoutNone == <<>>

LayoutDeclared == <<"destraValueIndex">>

LayoutReversed ==
    << "addressHigh", "addressLow", "destraSize", "destraAddress.lo",
       "destraAddress.hi", "destraCommand", "destraState.lo", "destraState.hi" >>

Layouts == {LayoutNone, LayoutDeclared, LayoutReversed}

StoreOutOfBounds(lay, f, i, b) ==
    LET k == i - VALUE_BUFFER_LEN + 1
        field == IF k <= Len(lay) THEN lay[k] ELSE "none"
    IN CASE field = "destraValueIndex" -> [f EXCEPT !.destraValueIndex = b]
         [] field = "destraSize"       -> [f EXCEPT !.destraSize = b]
         [] field = "destraCommand"    -> [f EXCEPT !.destraCommand = b]
         [] field = "addressLow"       -> [f EXCEPT !.addressLow = b]
         [] field = "addressHigh"      -> [f EXCEPT !.addressHigh = b]
         [] field = "destraAddress.lo" ->
                [f EXCEPT !.destraAddress = CombineAddress(b, f.destraAddress \div 256)]
         [] field = "destraAddress.hi" ->
                [f EXCEPT !.destraAddress = CombineAddress(f.destraAddress % 256, b)]
         [] field = "destraState.lo"   ->
                [f EXCEPT !.destraState = b + 256 * (f.destraState \div 256)]
         [] field = "destraState.hi"   ->
                [f EXCEPT !.destraState = (f.destraState % 256) + 256 * b]
         [] OTHER -> f

\* the completion test that ends WAIT_VALUE
ValueReceived(f) ==
    IF f.destraValueIndex >= f.destraSize
    THEN [f EXCEPT !.destraState = PROCESS_REQUEST]
    ELSE f

\* reference build: destraValueBuffer[destraValueIndex] = inByte, unguarded,
\* then destraValueIndex++
OnWaitValueRef(lay, f, b) ==
    LET i == f.destraValueIndex
        g == IF i < VALUE_BUFFER_LEN
             THEN [f EXCEPT !.destraValueBuffer[i + 1] = b]
             ELSE StoreOutOfBounds(lay, f, i, b)
    IN Outcome(ValueReceived([g EXCEPT !.destraValueIndex = U8(g.destraValueIndex + 1)]),
               <<b>>, FALSE, i >= VALUE_BUFFER_LEN)

\* Variant: the guard of the instrumented build without its buffer limit.
OnWaitValueTestSizeOnly(f, b) ==
    LET i == f.destraValueIndex
        stores == i < f.destraSize
        g == IF stores
             THEN [f EXCEPT !.destraValueBuffer[i + 1] = b,
                            !.destraValueIndex = U8(i + 1)]
             ELSE f
    IN Outcome(ValueReceived(g), <<>>, FALSE, stores /\ i >= VALUE_BUFFER_LEN)

\* Variant: the guard of the instrumented build with a limit of 7 bytes.
OnWaitValueTestShortBuffer(f, b) ==
    LET i == f.destraValueIndex
        stores == i < VALUE_BUFFER_LEN - 1 /\ i < f.destraSize
        g == IF stores
             THEN [f EXCEPT !.destraValueBuffer[i + 1] = b,
                            !.destraValueIndex = U8(i + 1)]
             ELSE f
    IN Outcome(ValueReceived(g), <<>>, FALSE, FALSE)

\* instrumented build: the store and the increment are guarded
OnWaitValueTest(f, b) ==
    LET i == f.destraValueIndex
        stores == i < VALUE_BUFFER_LEN /\ i < f.destraSize
        g == IF stores
             THEN [f EXCEPT !.destraValueBuffer[i + 1] = b,
                            !.destraValueIndex = U8(i + 1)]
             ELSE f
    IN Outcome(ValueReceived(g), <<>>, FALSE, stores /\ i >= VALUE_BUFFER_LEN)

OnWaitValue(im, lay, f, b) ==
    IF im = "ref" THEN OnWaitValueRef(lay, f, b) ELSE OnWaitValueTest(f, b)

\* switch (destraState): a value that is no enumerator matches no case
FramerStep(im, lay, f, b) ==
    CASE f.destraState = WAIT_START_HIGH   -> OnWaitStartHigh(im, f, b)
      [] f.destraState = WAIT_START_LOW    -> OnWaitStartLow(im, f, b)
      [] f.destraState = WAIT_COMMAND      -> OnWaitCommand(im, f, b)
      [] f.destraState = WAIT_ADDRESS_LOW  -> OnWaitAddressLow(im, f, b)
      [] f.destraState = WAIT_ADDRESS_HIGH -> OnWaitAddressHigh(im, f, b)
      [] f.destraState = WAIT_SIZE         -> OnWaitSize(im, f, b)
      [] f.destraState = WAIT_VALUE        -> OnWaitValue(im, lay, f, b)
      [] OTHER                             -> Outcome(f, <<>>, FALSE, FALSE)

\* A run of the receive loop so far:
\*   f     the parser globals
\*   rest  the bytes left in the receive queue
\*   echo, start, oob  as above, accumulated over the bytes read
Pass(r, o) ==
    [f     |-> o.f,
     rest  |-> Tail(r.rest),
     echo  |-> r.echo \o o.echo,
     start |-> r.start \/ o.start,
     oob   |-> r.oob \/ o.oob]

\* Variant: the receive loop reading on after a request is complete.
RECURSIVE FramerLoopGreedy(_, _, _)
FramerLoopGreedy(im, lay, r) ==
    IF r.rest = <<>>
    THEN r
    ELSE FramerLoopGreedy(im, lay, Pass(r, FramerStep(im, lay, r.f, Head(r.rest))))

\* while (Serial.available() > 0 && destraState != PROCESS_REQUEST) { ... }
\* (the run so far is bound to r, so that each pass is computed once)
RECURSIVE FramerLoop(_, _, _)
FramerLoop(im, lay, run) ==
    CHOOSE end \in { IF r.rest = <<>> \/ r.f.destraState = PROCESS_REQUEST
                     THEN r
                     ELSE FramerLoop(im, lay, Pass(r, FramerStep(im, lay, r.f, Head(r.rest))))
                     : r \in {run} } : TRUE

\* Variant: a framer that gives up a partly received packet when a call
\* finds no input.
FramerRunWithTimeout(im, lay, f, input) ==
    FramerLoop(im, lay,
               [f |-> IF input = <<>> THEN [f EXCEPT !.destraState = WAIT_START_HIGH] ELSE f,
                rest |-> input, echo |-> <<>>, start |-> FALSE, oob |-> FALSE])

\* destraHandler(), the receive loop on the bytes queued at the call
FramerRun(im, lay, f, input) ==
    FramerLoop(im, lay,
               [f |-> f, rest |-> input, echo |-> <<>>, start |-> FALSE, oob |-> FALSE])

\* ------------------------------------------------------------------------
\* Target memory and the request executor
\* ------------------------------------------------------------------------
\* RAM as the sketch finds it: the documentation's example target holds
\* 0x1234 (little-endian 34 12) at 0x0104; every other byte holds the low
\* byte of its own address.
RamImage(a) ==
    IF a = 260 THEN 52 ELSE IF a = 261 THEN 18 ELSE a % 256

\* ptr[i] as an rvalue
MemRead(m, a) == IF a \in DOMAIN m THEN m[a] ELSE RamImage(a)

\* uint8_t* ptr = (uint8_t*)destraAddress; the cells ptr[0] .. ptr[n-1]
Cells(a, n) == {a + i : i \in 0..(n - 1)}

\* Variant: the read loop running one byte too far.
ReadBackOneMore(m, a, n) == [i \in 1..(n + 1) |-> MemRead(m, a + i - 1)]

\* for (i = 0; i < destraSize; i++) Serial.write(ptr[i]);
ReadBack(m, a, n) == [i \in 1..n |-> MemRead(m, a + i - 1)]

\* Variant: the store loop running one byte past the range.
WriteValueOneBeyond(m, a, n, buf) ==
    [x \in DOMAIN m \cup Cells(a, n + 1) |->
        IF x \in Cells(a, n) THEN buf[x - a + 1]
        ELSE IF x = a + n THEN 165
        ELSE m[x]]

\* Variant: the store loop never advancing in destraValueBuffer.
WriteValueFirstByte(m, a, n, buf) ==
    [c \in (DOMAIN m) \cup Cells(a, n) |-> IF c \in Cells(a, n) THEN buf[1] ELSE m[c]]

\* Variant: the store loop filling the range from its highest address down.
WriteValueHighFirst(m, a, n, buf) ==
    [c \in (DOMAIN m) \cup Cells(a, n) |->
        IF c \in Cells(a, n) THEN buf[n - (c - a)] ELSE m[c]]

\* for (i = 0; i < destraSize; i++) ptr[i] = destraValueBuffer[i];
WriteValue(m, a, n, buf) ==
    [x \in DOMAIN m \cup Cells(a, n) |->
        IF x \in Cells(a, n) THEN buf[x - a + 1] ELSE m[x]]

\* Variant: the range check without its lower limit.
AddressAboveRange(a) == a > RAM_END

AddressOutOfRange(a) == a < RAM_START \/ a > RAM_END

SizeInvalid(n) == n = 0 \/ n > MAX_SIZE

ResponseHeader(cmd) == <<MAGIC_HIGH, MAGIC_LOW, cmd>>

\* What an executor call leaves behind:
\*   out     the bytes it wrote to Serial
\*   mem     target memory afterwards
\*   reads   the addresses it read, writes the addresses it stored to
Executed(out, m, reads, writes) ==
    [out |-> out, mem |-> m, reads |-> reads, writes |-> writes]

\* Variant: processPeekRequest validating the size before the address.
processPeekRequestSizeFirst(f, m) ==
    IF SizeInvalid(f.destraSize)
    THEN Executed(ResponseHeader(CMD_PEEK) \o <<STATUS_SIZE_ERROR>>, m, {}, {})
    ELSE IF AddressOutOfRange(f.destraAddress)
    THEN Executed(ResponseHeader(CMD_PEEK) \o <<STATUS_ADDRESS_RANGE_ERROR>>, m, {}, {})
    ELSE Executed(ResponseHeader(CMD_PEEK) \o <<STATUS_SUCCESS>>
                      \o ReadBack(m, f.destraAddress, f.destraSize),
                  m, Cells(f.destraAddress, f.destraSize), {})

processPeekRequest(f, m) ==
    IF AddressOutOfRange(f.destraAddress)
    THEN Executed(ResponseHeader(CMD_PEEK) \o <<STATUS_ADDRESS_RANGE_ERROR>>, m, {}, {})
    ELSE IF SizeInvalid(f.destraSize)
    THEN Executed(ResponseHeader(CMD_PEEK) \o <<STATUS_SIZE_ERROR>>, m, {}, {})
    ELSE Executed(ResponseHeader(CMD_PEEK) \o <<STATUS_SUCCESS>>
                      \o ReadBack(m, f.destraAddress, f.destraSize),
                  m, Cells(f.destraAddress, f.destraSize), {})

processPokeRequest(f, m) ==
    IF AddressOutOfRange(f.destraAddress)
    THEN Executed(ResponseHeader(CMD_POKE) \o <<STATUS_ADDRESS_RANGE_ERROR>>, m, {}, {})
    ELSE IF SizeInvalid(f.destraSize)
    THEN Executed(ResponseHeader(CMD_POKE) \o <<STATUS_SIZE_ERROR>>, m, {}, {})
    ELSE LET m2 == WriteValue(m, f.destraAddress, f.destraSize, f.destraValueBuffer)
         IN Executed(ResponseHeader(CMD_POKE) \o <<STATUS_SUCCESS>>
                         \o ReadBack(m2, f.destraAddress, f.destraSize),
                     m2,
                     Cells(f.destraAddress, f.destraSize),
                     Cells(f.destraAddress, f.destraSize))

\* ------------------------------------------------------------------------
\* Telemetry recorder (instrumented build)
\* ------------------------------------------------------------------------
ZeroPerfLog ==
    [ frameCounter |-> 0, frameRate |-> 0, frameJitter |-> 0,
      commandSequence |-> 0, commandFrameCounterDelta |-> 0,
      commandProcessTime |-> 0 ]

\* the instrumentation globals; perfBuffer is indexed 0 .. PERF_BUFFER_SIZE-1
InitPerf ==
    [ frameCounter        |-> 0,
      frameRate           |-> 0,
      frameJitter         |-> 0,
      commandSequence     |-> 0,
      commandStartCounter |-> 0,
      commandEndCounter   |-> 0,
      lastFrameTime       |-> 0,
      commandReceiveTime  |-> 0,
      commandProcessTime  |-> 0,
      lastDeltaTime       |-> 0,
      perfBuffer          |-> [i \in 0..(PERF_BUFFER_SIZE - 1) |-> ZeroPerfLog],
      perfIndex           |-> 0 ]

\* micros() in the frame that raises frameCounter to fc: boot is time 0 and
\* every frame lasts FRAME_PERIOD_US, readings inside a frame coincide
Micros(fc) == U32((fc - 1) * FRAME_PERIOD_US)

\* (uint16_t)(commandEndCounter - commandStartCounter), unsigned long operands
FrameCounterDelta(p) == U16(U32(p.commandEndCounter - p.commandStartCounter))

NewPerfLog(p) ==
    [ frameCounter |-> p.frameCounter,
      frameRate |-> p.frameRate,
      frameJitter |-> p.frameJitter,
      commandSequence |-> p.commandSequence,
      commandFrameCounterDelta |-> FrameCounterDelta(p),
      commandProcessTime |-> p.commandProcessTime ]

\* Variant: the recorder overwriting the oldest record when the log is full.
registerPerformanceStatsWrapping(p) ==
    [p EXCEPT !.perfBuffer[p.perfIndex] = NewPerfLog(p),
              !.perfIndex = U8((p.perfIndex + 1) % PERF_BUFFER_SIZE)]

\* Variant: the recorder without the guard and without the wrap of the cursor.
registerPerformanceStatsUnguarded(p) ==
    [p EXCEPT !.perfBuffer[p.perfIndex] = NewPerfLog(p),
              !.perfIndex = U8(p.perfIndex + 1)]

registerPerformanceStats(p) ==
    IF p.perfIndex < PERF_GUARD
    THEN [p EXCEPT !.perfBuffer[p.perfIndex] = NewPerfLog(p),
                   !.perfIndex = U8((p.perfIndex + 1) % PERF_BUFFER_SIZE)]
    ELSE p

sendPerfLogEntry(e) ==
    LittleEndian(e.frameCounter, 4) \o LittleEndian(e.frameRate, 2)
        \o LittleEndian(e.frameJitter, 2) \o LittleEndian(e.commandSequence, 2)
        \o LittleEndian(e.commandFrameCounterDelta, 2)
        \o LittleEndian(e.commandProcessTime, 4)

\* Variant: the drain loop sending the newest record first.
PerfLogResponseNewestFirst(p) ==
    ResponseHeader(CMD_GET_PERF_LOG) \o <<STATUS_SUCCESS>> \o <<p.perfIndex>>
        \o Flatten([i \in 1..p.perfIndex |->
                        sendPerfLogEntry(p.perfBuffer[p.perfIndex - i])])

\* the bytes processGetPerfLog writes; it then sets perfIndex = 0
PerfLogResponse(p) ==
    ResponseHeader(CMD_GET_PERF_LOG) \o <<STATUS_SUCCESS>> \o <<p.perfIndex>>
        \o Flatten([i \in 1..p.perfIndex |-> sendPerfLogEntry(p.perfBuffer[i - 1])])

processGetPerfLog(p) ==
    [out |-> PerfLogResponse(p), perf |-> [p EXCEPT !.perfIndex = 0]]

\* loop(), the statements before destraHandler(): frame rate, jitter, frameCounter++
FrameStart(p) ==
    LET fc == U32(p.frameCounter + 1)
        currentFrameTime == Micros(fc)
        deltaTime == U32(currentFrameTime - p.lastFrameTime)
        jitter == IF deltaTime >= p.lastDeltaTime
                  THEN deltaTime - p.lastDeltaTime
                  ELSE p.lastDeltaTime - deltaTime
    IN [p EXCEPT !.frameRate = IF deltaTime > 0 THEN U16(1000000 \div deltaTime) ELSE @,
                 !.frameJitter = U16(jitter),
                 !.lastDeltaTime = deltaTime,
                 !.frameCounter = fc]

\* loop(), the last statement: lastFrameTime = currentFrameTime
FrameEnd(p) == [p EXCEPT !.lastFrameTime = Micros(p.frameCounter)]

\* Variant: the instrumentation without commandStartCounter = frameCounter.
CommandStartTimeOnly(p) == [p EXCEPT !.commandReceiveTime = Micros(p.frameCounter)]

\* WAIT_START_HIGH on 0xCA: commandReceiveTime = micros(); commandStartCounter = frameCounter
CommandStart(p) ==
    [p EXCEPT !.commandReceiveTime = Micros(p.frameCounter),
              !.commandStartCounter = p.frameCounter]

\* Variant: the instrumentation without commandSequence++.
CommandEndSameSequence(p) ==
    [p EXCEPT !.commandEndCounter = p.frameCounter,
              !.commandProcessTime = U32(Micros(p.frameCounter) - p.commandReceiveTime)]

\* the instrumentation after a processed request, up to the call of
\* registerPerformanceStats()
CommandEnd(p) ==
    [p EXCEPT !.commandEndCounter = p.frameCounter,
              !.commandProcessTime = U32(Micros(p.frameCounter) - p.commandReceiveTime),
              !.commandSequence = U16(p.commandSequence + 1)]

\* the perfBuffer index registerPerformanceStats() stores to when called in
\* state p (the cursor it finds), or -1 when it stores nothing
PerfStoreIndex(p) ==
    IF registerPerformanceStats(p) # p THEN p.perfIndex ELSE -1

\* ------------------------------------------------------------------------
\* destraHandler: the receive loop, then the PROCESS_REQUEST block
\* ------------------------------------------------------------------------
\* What one call leaves behind:
\*   f, mem, perf   parser globals, target memory, instrumentation globals
\*   rest           bytes still queued in Serial
\*   out            everything written to Serial (echo, then the response)
\*   ran            TRUE when the PROCESS_REQUEST block was entered
\*   asm            the parser globals as the block found them (the request
\*                  as assembled), resp the bytes the executor wrote
\*   reads, writes  target addresses the executor touched
\*   drained        perfBuffer entries the drain loop read, -1 without a drain
\*   store          perfBuffer index the recorder stored to, -1 without a store
\*   oob            TRUE when a byte was stored outside destraValueBuffer
Dispatch(im, f, m, p) ==
    IF f.destraCommand = CMD_PEEK
    THEN LET e == processPeekRequest(f, m)
         IN [out |-> e.out, mem |-> e.mem, perf |-> p, reads |-> e.reads,
             writes |-> e.writes, drained |-> -1]
    ELSE IF f.destraCommand = CMD_POKE
    THEN LET e == processPokeRequest(f, m)
         IN [out |-> e.out, mem |-> e.mem, perf |-> p, reads |-> e.reads,
             writes |-> e.writes, drained |-> -1]
    ELSE IF im = "test" /\ f.destraCommand = CMD_GET_PERF_LOG
    THEN LET g == processGetPerfLog(p)
         IN [out |-> g.out, mem |-> m, perf |-> g.perf, reads |-> {},
             writes |-> {}, drained |-> p.perfIndex]
    ELSE [out |-> <<>>, mem |-> m, perf |-> p, reads |-> {}, writes |-> {},
          drained |-> -1]

\* the statements after the dispatch
AfterDispatch(im, f) ==
    IF im = "test"
    THEN [f EXCEPT !.destraCommand = 0, !.destraState = WAIT_START_HIGH]
    ELSE [f EXCEPT !.destraState = WAIT_START_HIGH]

\* if (destraState == PROCESS_REQUEST) { ... } after the run r of the receive loop
Processed(im, r, d, p) ==
    [ f |-> AfterDispatch(im, r.f),
      mem |-> d.mem,
      perf |-> IF im = "test" THEN registerPerformanceStats(p) ELSE p,
      rest |-> r.rest,
      out |-> r.echo \o d.out,
      ran |-> TRUE, asm |-> r.f, resp |-> d.out,
      reads |-> d.reads, writes |-> d.writes, drained |-> d.drained,
      store |-> IF im = "test" THEN PerfStoreIndex(p) ELSE -1,
      oob |-> r.oob ]

NotProcessed(r, m, p) ==
    [ f |-> r.f, mem |-> m, perf |-> p, rest |-> r.rest, out |-> r.echo,
      ran |-> FALSE, asm |-> r.f, resp |-> <<>>,
      reads |-> {}, writes |-> {}, drained |-> -1, store |-> -1, oob |-> r.oob ]

DispatchAndRecord(im, r, d) ==
    Processed(im, r, d, IF im = "test" THEN CommandEnd(d.perf) ELSE d.perf)

ProcessRequest(im, r, m, p) ==
    IF r.f.destraState = PROCESS_REQUEST
    THEN DispatchAndRecord(im, r, Dispatch(im, r.f, m, IF r.start THEN CommandStart(p) ELSE p))
    ELSE NotProcessed(r, m, IF r.start THEN CommandStart(p) ELSE p)

destraHandler(im, lay, f, m, p, input) ==
    CHOOSE h \in { ProcessRequest(im, r, m, p) : r \in {FramerRun(im, lay, f, input)} } : TRUE

\* ------------------------------------------------------------------------
\* The host side of the link: request packets as the host builds them
\* ------------------------------------------------------------------------
\* addresses around both ends of the window: 0x00FF 0x0100 0x0104 0x08FF 0x0900
Addresses == {255, 256, 260, 2303, 2304}

\* sizes around both ends of 1..8
Sizes == {0, 1, 2, 8, 9}

Request(cmd, addr, size, value) ==
    [cmd |-> cmd, addr |-> addr, size |-> size, value |-> value]

PeekRequests == {Request(CMD_PEEK, a, n, <<>>) : a \in Addresses, n \in Sizes}

\* value bytes: the documentation's 04 00 .. at every address, and at 0x0104
\* also bytes that look like a packet
PlainValue == <<4, 0, 18, 52, 86, 120, 154, 188, 1>>

PacketLikeValue == <<202, 254, 241, 4, 1, 2, 242, 0, 7>>

PokeRequests ==
    {Request(CMD_POKE, a, n, SubSeq(PlainValue, 1, n)) : a \in Addresses, n \in Sizes}
        \cup {Request(CMD_POKE, 260, n, SubSeq(PacketLikeValue, 1, n)) : n \in Sizes}

PerfLogRequest == Request(CMD_GET_PERF_LOG, 0, 0, <<>>)

Requests == PeekRequests \cup PokeRequests \cup {PerfLogRequest}

\* [0xCA][0xFE][CMD][ADDR_L][ADDR_H][SIZE][DATA...]; GET_PERF_LOG is the
\* three header bytes alone
Packet(r) ==
    IF r.cmd = CMD_GET_PERF_LOG
    THEN <<MAGIC_HIGH, MAGIC_LOW, r.cmd>>
    ELSE <<MAGIC_HIGH, MAGIC_LOW, r.cmd, r.addr % 256, r.addr \div 256, r.size>> \o r.value

\* ------------------------------------------------------------------------
\* State
\* ------------------------------------------------------------------------
VARIABLES
    impl,     \* which build runs: "ref" or "test"
    layout,   \* what that build placed behind destraValueBuffer
    fr,       \* the parser globals (destraState, destraCommand, ...)
    mem,      \* target memory: the bytes stored so far, over RamImage
    pf,       \* the instrumentation globals (frameCounter, perfBuffer, ...)
    rx,       \* bytes queued in Serial, not yet read
    wire,     \* bytes the host has written that have not arrived yet
    tx,       \* bytes written to Serial since the host's last request
    exec,     \* the last request executed since the host's last request,
              \* and how many were executed since then
    ub,       \* TRUE once a byte was stored outside destraValueBuffer
    req,      \* the host's last request, and how it found the framer
    nreq,     \* number of requests the host has sent
    pokes,    \* POKEs answered SUCCESS whose cells were not written since
    lastCmds, \* commands of the last two requests executed, oldest first
    okRun,    \* PEEK/POKE requests answered SUCCESS since power-up, while
              \* nothing else was executed; -1 afterwards
    host      \* the host protocol peer: its state and, for the caller's
              \* current request, the transmissions and resynchronizations

vars == <<impl, layout, fr, mem, pf, rx, wire, tx, exec, ub, req, nreq, pokes, lastCmds, okRun,
          host>>

NoExec ==
    [ran |-> FALSE, asm |-> InitFramer, resp |-> <<>>, reads |-> {}, writes |-> {},
     drained |-> -1, store |-> -1, okBefore |-> -1, runs |-> 0, since |-> -1]

NoRequest ==
    [cmd |-> 0, addr |-> 0, size |-> 0, value |-> <<>>, pre |-> <<>>,
     clean |-> FALSE, bare |-> [ran |-> FALSE, resp |-> <<>>, mem |-> <<>>]]

\* the host peer between two requests of its caller
IdleHost == [state |-> "Idle", sent |-> 0, resyncs |-> 0]

Init ==
    /\ \/ impl = "ref" /\ layout \in Layouts
       \/ impl = "test" /\ layout = LayoutNone
    /\ fr = InitFramer
    /\ mem = <<>>
    /\ pf = InitPerf
    /\ rx = <<>>
    /\ wire = <<>>
    /\ tx = <<>>
    /\ exec = NoExec
    /\ ub = FALSE
    /\ req = NoRequest
    /\ nreq = 0
    /\ pokes = {}
    /\ lastCmds = <<0, 0>>
    /\ okRun = 0
    /\ host = IdleHost

\* ------------------------------------------------------------------------
\* Host actions
\* ------------------------------------------------------------------------
\* what the request yields when it reaches the target alone, in one piece
BareOutcome(r) ==
    LET h == destraHandler(impl, layout, fr, mem, FrameStart(pf), Packet(r))
    IN [ran |-> h.ran, resp |-> h.resp, mem |-> h.mem]

\* The host writes the bytes `pre` (line noise; none in normal operation) and
\* then `pkt`, the packet of request r or what is left of it.  It writes only
\* once its previous bytes were read by the target.  What becomes of `host`
\* is left to the action that writes.
HostWrite(r, pre, pkt, limit) ==
    /\ nreq < limit
    /\ wire = <<>>
    /\ rx = <<>>
    /\ wire' = pre \o pkt
    /\ req' = [cmd |-> r.cmd, addr |-> r.addr, size |-> r.size, value |-> r.value,
               pre |-> pre,
               clean |-> (fr.destraState = WAIT_START_HIGH),
               bare |-> BareOutcome(r)]
    /\ nreq' = nreq + 1
    /\ tx' = <<>>
    /\ exec' = NoExec
    /\ UNCHANGED <<impl, layout, fr, mem, pf, rx, ub, pokes, lastCmds, okRun>>

\* the host writes `pre` and then the whole packet of request r
HostSend(r, pre, limit) == HostWrite(r, pre, Packet(r), limit) /\ UNCHANGED host

\* the first n bytes in flight arrive in the Serial receive queue
Arrive(n) ==
    /\ n \in 1..Len(wire)
    /\ rx' = rx \o SubSeq(wire, 1, n)
    /\ wire' = SubSeq(wire, n + 1, Len(wire))
    /\ UNCHANGED <<impl, layout, fr, mem, pf, tx, exec, ub, req, nreq, pokes, lastCmds, okRun,
                   host>>

\* ------------------------------------------------------------------------
\* loop(): frame bookkeeping (instrumented build), then destraHandler()
\* ------------------------------------------------------------------------
StatusOf(resp) == IF Len(resp) >= 4 THEN resp[4] ELSE 255

\* the POKE history after a handler call h
PokesAfter(h) ==
    LET kept == {q \in pokes : Cells(q.addr, q.size) \cap h.writes = {}}
        new == IF /\ h.ran
                  /\ req.clean
                  /\ req.cmd = CMD_POKE
                  /\ req.size \in 1..MAX_SIZE
                  /\ StatusOf(h.resp) = STATUS_SUCCESS
               THEN {[addr |-> req.addr, size |-> req.size, value |-> req.value]}
               ELSE {}
    IN kept \cup new

\* the count of successes from power-up after a handler call h
OkRunAfter(h) ==
    IF ~h.ran THEN okRun
    ELSE IF /\ okRun >= 0
            /\ h.asm.destraCommand \in {CMD_PEEK, CMD_POKE}
            /\ StatusOf(h.resp) = STATUS_SUCCESS
         THEN okRun + 1
         ELSE -1

\* calculation() and whatever else the sketch does after destraHandler(): w
\* maps the addresses it stores to onto the bytes stored
OtherWork(m, w) == [x \in DOMAIN m \cup DOMAIN w |-> IF x \in DOMAIN w THEN w[x] ELSE m[x]]

\* the sketches' own calculation() stores to none of the observed addresses
NoWork == <<>>

\* the instrumentation globals after n further loop() iterations that find no
\* input: from the third on, each one only raises frameCounter and lastFrameTime
IdleLoops(p, n) ==
    LET p1 == FrameEnd(FrameStart(p))
        p2 == FrameEnd(FrameStart(p1))
        p3 == FrameEnd(FrameStart(p2))
    IN IF n = 0 THEN p
       ELSE IF n = 1 THEN p1
       ELSE IF n = 2 THEN p2
       ELSE [p3 EXCEPT !.frameCounter = U32(p.frameCounter + n),
                       !.lastFrameTime = Micros(U32(p.frameCounter + n))]

\* the loop() iterations begun since the one that consumed the first byte of
\* the host's last request, up to the one that completed it: s before this
\* iteration, which finds `queued` bytes, completes a request or not (ran) and
\* is followed by n iterations that find no input
SinceAfter(s, done, queued, ran, n) ==
    LET s1 == IF done THEN s
              ELSE IF s < 0 THEN (IF queued THEN 0 ELSE -1)
              ELSE s + 1
    IN IF done \/ ran \/ s1 < 0 THEN s1 ELSE s1 + n

\* one loop() iteration, calculation() storing w, and n further iterations
\* that find no input
LoopThenIdle(w, n) ==
    /\ \E h \in {destraHandler(impl, layout, fr, mem,
                                 IF impl = "test" THEN FrameStart(pf) ELSE pf, rx)} :
          /\ fr' = h.f
          /\ mem' = OtherWork(h.mem, w)
          /\ pf' = IF impl = "test" THEN IdleLoops(FrameEnd(h.perf), n) ELSE h.perf
          /\ rx' = h.rest
          /\ tx' = tx \o h.out
          /\ exec' = IF h.ran
                     THEN [ran |-> TRUE, asm |-> h.asm, resp |-> h.resp,
                           reads |-> h.reads, writes |-> h.writes,
                           drained |-> h.drained, store |-> h.store,
                           okBefore |-> okRun, runs |-> exec.runs + 1,
                           since |-> SinceAfter(exec.since, exec.ran, rx # <<>>, TRUE, n)]
                     ELSE [exec EXCEPT
                             !.since = SinceAfter(@, exec.ran, rx # <<>>, FALSE, n)]
          /\ ub' = (ub \/ h.oob)
          /\ pokes' = PokesAfter(h)
          /\ lastCmds' = IF h.ran THEN <<lastCmds[2], h.asm.destraCommand>> ELSE lastCmds
          /\ okRun' = OkRunAfter(h)
    /\ UNCHANGED <<impl, layout, wire, req, nreq, host>>

LoopWith(w) == LoopThenIdle(w, 0)

Loop == LoopWith(NoWork)

\* ------------------------------------------------------------------------
\* Specification: both builds, any two requests, packets arriving whole
\* ------------------------------------------------------------------------
Send == \E r \in Requests : HostSend(r, <<>>, MaxRequests)

ArriveAll == Arrive(Len(wire))

\* a loop() iteration that finds bytes queued
Frame == rx # <<>> /\ Loop

Next == Send \/ ArriveAll \/ Frame

Spec == Init /\ [][Next]_vars

\* ------------------------------------------------------------------------
\* Properties of Spec
\* ------------------------------------------------------------------------
\* the target has read everything the host sent
Settled == nreq > 0 /\ wire = <<>> /\ rx = <<>>

InWindow(a, n) == a >= RAM_START /\ a + n - 1 <= RAM_END

Payload(resp) == SubSeq(resp, 5, Len(resp))

\* the host's last request found the framer idle, is a cmd request with an
\* address inside the window and a size in 1..8
ValidRequest(cmd) ==
    /\ req.clean
    /\ req.cmd = cmd
    /\ InWindow(req.addr, req.size)
    /\ req.size \in 1..MAX_SIZE

\* C1 (round trip): when a POKE of `value` to (address, size), the range
\* inside the window and size in 1..8, was answered SUCCESS and no cell of the
\* range was written since, a PEEK of the same (address, size) is answered
\* SUCCESS with exactly `value` as payload.
RoundTrip ==
    (Settled /\ ValidRequest(CMD_PEEK)) =>
        \A q \in pokes :
            (q.addr = req.addr /\ q.size = req.size) =>
                /\ exec.ran
                /\ StatusOf(exec.resp) = STATUS_SUCCESS
                /\ Payload(exec.resp) = q.value

RoundTripReached ==
    /\ Settled /\ ValidRequest(CMD_PEEK) /\ exec.ran
    /\ req.size = MAX_SIZE
    /\ \E q \in pokes : q.addr = req.addr /\ q.size = req.size

SizeErrorAnswered ==
    (/\ Settled
     /\ req.clean
     /\ req.cmd \in {CMD_PEEK, CMD_POKE}
     /\ (req.size = 0 \/ req.size > 8)
     /\ req.addr \in 256..2303) =>
        /\ exec.ran
        /\ exec.resp = <<202, 254, req.cmd, 2>>

\* C4 (response layout): every response starts CA FE, then the command byte
\* of the request, then a status in {0, 1, 2}; a PEEK or POKE response is 4
\* bytes long on an error status and 4 + size bytes long on SUCCESS.
ResponseLayout ==
    exec.ran =>
        LET cmd == exec.asm.destraCommand
            resp == exec.resp
        IN /\ Len(resp) >= 4
           /\ SubSeq(resp, 1, 3) = <<202, 254, cmd>>
           /\ resp[4] \in {0, 1, 2}
           /\ cmd \in {CMD_PEEK, CMD_POKE} =>
                 Len(resp) = IF resp[4] = 0 THEN 4 + exec.asm.destraSize ELSE 4

ResponseLayoutReached ==
    /\ exec.ran
    /\ exec.asm.destraCommand = CMD_POKE
    /\ exec.resp[4] = 0
    /\ Len(exec.resp) = 12

DrainLeavesEmpty ==
    (exec.ran /\ exec.asm.destraCommand = CMD_GET_PERF_LOG) =>
        /\ pf.perfIndex = 0
        /\ lastCmds[1] = CMD_GET_PERF_LOG => exec.resp = <<202, 254, 243, 0, 0>>

\* ------------------------------------------------------------------------
\* Specification: one byte of line noise ahead of every request
\* ------------------------------------------------------------------------
\* The framer compares a byte read in WAIT_START_HIGH with 0xCA only: 0xCA,
\* the other magic byte, a command byte and two plain bytes stand for all.
NoiseBytes == {0, 202, 254, 241, 255}

\* the documented PEEK and POKE, an address error, a size error and a drain
ResyncRequests ==
    { Request(CMD_PEEK, 260, 2, <<>>),
      Request(CMD_POKE, 260, 2, <<4, 0>>),
      Request(CMD_PEEK, 255, 2, <<>>),
      Request(CMD_PEEK, 260, 9, <<>>),
      PerfLogRequest }

MaxNoisyRequests == 2

SendAfterNoise ==
    \E r \in ResyncRequests, b \in NoiseBytes : HostSend(r, <<b>>, MaxNoisyRequests)

NextResync == SendAfterNoise \/ ArriveAll \/ Frame

SpecResync == Init /\ [][NextResync]_vars

\* C7 (resync): with the framer in WAIT_START_HIGH, one spurious byte ahead of
\* a valid request changes neither the response nor the memory the request
\* yields when sent alone.
ResyncHarmless ==
    (/\ Settled
     /\ req.pre # <<>>
     /\ ValidRequest(CMD_PEEK) \/ ValidRequest(CMD_POKE)) =>
        /\ exec.ran = req.bare.ran
        /\ exec.resp = req.bare.resp
        /\ mem = req.bare.mem

\* ------------------------------------------------------------------------
\* Specification: a long run of successful requests and one drain of the log
\* ------------------------------------------------------------------------
\* the documented PEEK and POKE, both answered SUCCESS
PerfRequests ==
    { Request(CMD_PEEK, 260, 2, <<>>),
      Request(CMD_POKE, 260, 2, <<4, 0>>) }

\* enough requests to fill the log, overrun it and drain it
MaxPerfRequests == 102

SendPerf == \E r \in PerfRequests : HostSend(r, <<>>, MaxPerfRequests)

\* the host reads the log of an unbroken run of successes
Drain == okRun >= 0 /\ HostSend(PerfLogRequest, <<>>, MaxPerfRequests)

NextPerf == SendPerf \/ Drain \/ ArriveAll \/ Frame

\* only the instrumented build keeps a log
InitInstrumented == Init /\ impl = "test"

SpecPerf == InitInstrumented /\ [][NextPerf]_vars

\* commandSequence of the k-th record of a GET_PERF_LOG response (bytes 9 and
\* 10 of the 16-byte record, low byte first)
RecordSequence(resp, k) == resp[5 + 16 * (k - 1) + 9] + 256 * resp[5 + 16 * (k - 1) + 10]

\* C8 (telemetry count): for every N in 0..100, a GET_PERF_LOG executed after
\* exactly N PEEK/POKE requests answered SUCCESS since power-up, and nothing
\* else, carries COUNT = N and N records of 16 bytes whose commandSequence
\* values increase strictly.
TelemetryCount ==
    (/\ exec.ran
     /\ exec.asm.destraCommand = CMD_GET_PERF_LOG
     /\ exec.okBefore \in 0..100) =>
        /\ exec.resp[5] = exec.okBefore
        /\ Len(exec.resp) = 5 + 16 * exec.okBefore
        /\ \A k \in 1..(exec.okBefore - 1) :
              RecordSequence(exec.resp, k) < RecordSequence(exec.resp, k + 1)

\* C10 (telemetry bounds): perfIndex never exceeds PERF_BUFFER_SIZE = 100, the
\* recorder stores to an index in 0..99 only and a drain reads indices in
\* 0..99 only.
TelemetryBounded ==
    /\ pf.perfIndex \in 0..100
    /\ exec.store \in -1..99
    /\ exec.drained \in -1..100

\* the log filled up again after a drain, and a record was dropped
TelemetryBoundedReached ==
    /\ exec.ran
    /\ okRun = -1
    /\ pf.perfIndex = 99
    /\ exec.store = -1
    /\ pf.commandSequence = 101

\* the step completes a request (commandSequence++ runs once per request)
CompletesRequest == pf'.commandSequence # pf.commandSequence

\* the records stored below the cursor stay as they are
RecordsKept == \A i \in 0..(pf.perfIndex - 1) : pf'.perfBuffer[i] = pf.perfBuffer[i]

\* C11 (drop when full): a completed request other than GET_PERF_LOG never
\* changes a stored record and never moves the cursor back; with the cursor
\* at the guarded bound 99 it leaves cursor and log as they are; the cursor
\* goes down only in a step that serves GET_PERF_LOG, and a step that
\* completes no request leaves cursor and log alone.
DropWhenFull ==
    [][ /\ ~CompletesRequest =>
              pf'.perfIndex = pf.perfIndex /\ pf'.perfBuffer = pf.perfBuffer
        /\ (CompletesRequest /\ exec'.asm.destraCommand # CMD_GET_PERF_LOG) =>
              /\ RecordsKept
              /\ pf'.perfIndex >= pf.perfIndex
              /\ pf.perfIndex = 99 =>
                    pf'.perfIndex = 99 /\ pf'.perfBuffer = pf.perfBuffer
        /\ pf'.perfIndex < pf.perfIndex =>
              CompletesRequest /\ exec'.asm.destraCommand = CMD_GET_PERF_LOG ]_vars

\* two requests completed one after the other on a full log, never drained
DropWhenFullReached ==
    /\ exec.ran
    /\ exec.asm.destraCommand = CMD_POKE
    /\ okRun = 101
    /\ pf.perfIndex = 99
    /\ pf.perfBuffer[98].commandSequence = 99

\* C12 (value buffer, instrumented build): no byte is stored to
\* destraValueBuffer at an index of 8 or more and destraValueIndex never
\* exceeds 8, whatever size byte a POKE declares and whatever bytes follow.
ValueBufferGuarded ==
    impl = "test" =>
        /\ ~ub
        /\ fr.destraValueIndex <= 8

\* a POKE declaring 9 bytes got them all, and a whole further packet after them
ValueBufferGuardedReached ==
    /\ impl = "test"
    /\ nreq = 2
    /\ Settled
    /\ fr.destraState = WAIT_VALUE
    /\ fr.destraSize = 9
    /\ fr.destraValueIndex = 8

\* C13 (size at the executor): every PEEK or POKE the framer hands to the
\* executor has a size in 1..8.
SizeInRangeAtExecutor ==
    (exec.ran /\ exec.asm.destraCommand \in {CMD_PEEK, CMD_POKE}) =>
        exec.asm.destraSize \in 1..8

\* C15 (parser reset): whenever a parse has completed or was aborted, that is
\* whenever the framer is back in WAIT_START_HIGH, every parser field holds
\* its initial value: command, address bytes, size and value index 0, value
\* buffer all zero.
ParserReset ==
    fr.destraState = WAIT_START_HIGH =>
        /\ fr.destraCommand = 0
        /\ fr.addressLow = 0 /\ fr.addressHigh = 0
        /\ fr.destraSize = 0
        /\ fr.destraValueIndex = 0
        /\ fr.destraValueBuffer = [i \in 1..8 |-> 0]

\* ------------------------------------------------------------------------
\* Specification: two requests written back to back
\* ------------------------------------------------------------------------
\* the documented PEEK and POKE, a POKE whose value looks like a PEEK packet,
\* an address error and a drain
BurstRequests ==
    { Request(CMD_PEEK, 260, 2, <<>>),
      Request(CMD_POKE, 260, 2, <<4, 0>>),
      Request(CMD_POKE, 256, 8, SubSeq(PacketLikeValue, 1, 8)),
      Request(CMD_PEEK, 2304, 1, <<>>),
      PerfLogRequest }

MaxBursts == 1

\* the host writes the packet of r1 and, without waiting, the packet of r2
SendBurst ==
    \E r1 \in BurstRequests, r2 \in BurstRequests : HostSend(r2, Packet(r1), MaxBursts)

NextBurst == SendBurst \/ ArriveAll \/ Frame

SpecBurst == Init /\ [][NextBurst]_vars

\* the parser globals hold command, address, size and value bytes of packet pkt
AssembledFrom(f, pkt) ==
    /\ f.destraCommand = pkt[3]
    /\ Len(pkt) > 3 =>
          /\ f.addressLow = pkt[4] /\ f.addressHigh = pkt[5]
          /\ f.destraAddress = pkt[4] + 256 * pkt[5]
          /\ f.destraSize = pkt[6]
          /\ \A i \in 1..(Len(pkt) - 6) : f.destraValueBuffer[i] = pkt[6 + i]

\* the commands the build serves
Served == IF impl = "test" THEN {CMD_PEEK, CMD_POKE, CMD_GET_PERF_LOG} ELSE {CMD_PEEK, CMD_POKE}

\* C14 (no pipelining): with two request packets queued at once, a
\* destraHandler call reads the bytes of the first packet only, executes the
\* request assembled from exactly these bytes and leaves the bytes of the
\* second packet queued; the next call does the same with the second packet.
NoPipelining ==
    (/\ wire = <<>> /\ nreq > 0
     /\ req.pre[3] \in Served /\ req.cmd \in Served) =>
        \/ rx = req.pre \o Packet(req) /\ ~exec.ran
        \/ rx = Packet(req) /\ exec.ran /\ AssembledFrom(exec.asm, req.pre)
        \/ rx = <<>> /\ exec.ran /\ AssembledFrom(exec.asm, Packet(req))

\* a POKE was executed and the PEEK sent right behind it is still queued
NoPipeliningReached ==
    /\ exec.ran
    /\ exec.asm.destraCommand = CMD_POKE
    /\ exec.asm.destraSize = 8
    /\ req.cmd = CMD_PEEK
    /\ rx = Packet(req)
    /\ tx # <<>>

\* ------------------------------------------------------------------------
\* Specification: the bytes of a request arriving one per loop() iteration
\* ------------------------------------------------------------------------
\* the documented PEEK and POKE, sizes 0 and 9, an address error and a drain
ByteRequests ==
    { Request(CMD_PEEK, 260, 2, <<>>),
      Request(CMD_POKE, 260, 2, <<4, 0>>),
      Request(CMD_POKE, 260, 0, <<>>),
      Request(CMD_POKE, 260, 9, PlainValue),
      Request(CMD_PEEK, 260, 9, <<>>),
      Request(CMD_PEEK, 255, 1, <<>>),
      PerfLogRequest }

MaxByteRequests == 1

SendSlow == \E r \in ByteRequests : HostSend(r, <<>>, MaxByteRequests)

ArriveOne == Arrive(1)

NextBytes == SendSlow \/ ArriveOne \/ Frame

SpecBytes == Init /\ [][NextBytes]_vars

\* the framer state the transition table names for parser globals f and byte
\* b, where g are the globals after the byte was consumed
TableNext(f, b, g) ==
    CASE f.destraState = WAIT_START_HIGH ->
            IF b = 202 THEN WAIT_START_LOW ELSE WAIT_START_HIGH
      [] f.destraState = WAIT_START_LOW ->
            IF b = 254 THEN WAIT_COMMAND ELSE WAIT_START_HIGH
      [] f.destraState = WAIT_COMMAND ->
            IF b = 241 \/ b = 242 THEN WAIT_ADDRESS_LOW ELSE WAIT_START_HIGH
      [] f.destraState = WAIT_ADDRESS_LOW -> WAIT_ADDRESS_HIGH
      [] f.destraState = WAIT_ADDRESS_HIGH -> WAIT_SIZE
      [] f.destraState = WAIT_SIZE ->
            IF f.destraCommand = 241 THEN PROCESS_REQUEST ELSE WAIT_VALUE
      [] f.destraState = WAIT_VALUE ->
            IF g.destraValueIndex = g.destraSize THEN PROCESS_REQUEST ELSE WAIT_VALUE
      [] OTHER -> g.destraState

\* C16 (transition table): whatever state the framer is in between two calls
\* and whatever byte it reads next, the state it moves to is the one the
\* documented table gives: 0xCA, 0xFE and PEEK/POKE advance the header and
\* every other byte there leads to WAIT_START_HIGH, the address states advance
\* on any byte, WAIT_SIZE leads to PROCESS_REQUEST for PEEK and WAIT_VALUE for
\* POKE, and WAIT_VALUE leads to PROCESS_REQUEST exactly when the value index
\* equals the size.
TransitionTable ==
    \A b \in Byte :
        \E g \in {FramerStep(impl, layout, fr, b).f} :
            g.destraState = TableNext(fr, b, g)

\* ------------------------------------------------------------------------
\* Properties of the GET_PERF_LOG exchange
\* ------------------------------------------------------------------------
\* the unsigned number in the n bytes of resp from position at, low byte first
RECURSIVE Decode(_, _, _)
Decode(resp, at, n) ==
    IF n = 0 THEN 0 ELSE resp[at] + 256 * Decode(resp, at + 1, n - 1)

\* the k-th 16-byte record of a GET_PERF_LOG response, field by field
DecodeRecord(resp, k) ==
    LET at == 5 + 16 * (k - 1) + 1
    IN [ frameCounter |-> Decode(resp, at, 4),
         frameRate |-> Decode(resp, at + 4, 2),
         frameJitter |-> Decode(resp, at + 6, 2),
         commandSequence |-> Decode(resp, at + 8, 2),
         commandFrameCounterDelta |-> Decode(resp, at + 10, 2),
         commandProcessTime |-> Decode(resp, at + 12, 4) ]

\* C17 (GET_PERF_LOG framing): the request is the three bytes CA FE F3 and is
\* executed by the call that reads them, with nothing else read; the response
\* is CA FE F3 00, a COUNT byte equal to the number of records in the log,
\* and COUNT records of 16 bytes, the record at log position k-1 as the k-th,
\* which is oldest first (commandSequence increasing).
PerfLogFraming ==
    [][ (CompletesRequest /\ exec'.asm.destraCommand = CMD_GET_PERF_LOG) =>
            /\ rx = <<202, 254, 243>> /\ rx' = <<>>
            /\ Len(exec'.resp) = 5 + 16 * pf.perfIndex
            /\ SubSeq(exec'.resp, 1, 5) = <<202, 254, 243, 0, pf.perfIndex>>
            /\ \A k \in 1..pf.perfIndex :
                  DecodeRecord(exec'.resp, k) = pf.perfBuffer[k - 1]
            /\ \A k \in 1..(pf.perfIndex - 1) :
                  DecodeRecord(exec'.resp, k).commandSequence
                      < DecodeRecord(exec'.resp, k + 1).commandSequence ]_vars

\* a drain of a full log
PerfLogFramingReached ==
    /\ exec.ran
    /\ exec.asm.destraCommand = CMD_GET_PERF_LOG
    /\ exec.drained = 99
    /\ Len(exec.resp) = 5 + 16 * 99
    /\ Settled

\* C18 (exact framing): once the target has read all bytes of a complete
\* request packet that found the framer in WAIT_START_HIGH (3 bytes for
\* GET_PERF_LOG, 6 for PEEK, 6 + size for POKE, any size byte), the framer has
\* passed through PROCESS_REQUEST with the request assembled from exactly these
\* bytes and waits for the next packet.
ExactFraming ==
    (Settled /\ req.clean /\ req.cmd \in Served) =>
        /\ exec.ran
        /\ exec.asm.destraCommand = req.cmd
        /\ req.cmd # CMD_GET_PERF_LOG =>
              exec.asm.destraAddress = req.addr /\ exec.asm.destraSize = req.size
        /\ fr.destraState = WAIT_START_HIGH

\* ------------------------------------------------------------------------
\* Specification: a lost exchange followed by the host's recovery
\* ------------------------------------------------------------------------
\* the documented PEEK and POKE, an address error and a drain
RecoverRequests ==
    { Request(CMD_PEEK, 260, 2, <<>>),
      Request(CMD_POKE, 260, 2, <<4, 0>>),
      Request(CMD_PEEK, 2304, 1, <<>>),
      PerfLogRequest }

\* the longest run of 0xCA the host sends
MaxRun == 3

MaxRecoverSends == 2

\* "Envia sequencia de 0xCA": [0xCA][0xCA][0xCA]...
Run(n) == [i \in 1..n |-> MAGIC_HIGH]

IsRun(bytes) == bytes # <<>> /\ \A i \in 1..Len(bytes) : bytes[i] = MAGIC_HIGH

\* a failed exchange: only the first k bytes of the packet reach the target
SendTruncated ==
    /\ \E r \in RecoverRequests : \E k \in 1..(Len(Packet(r)) - 1) :
          HostWrite(r, <<>>, SubSeq(Packet(r), 1, k), MaxRecoverSends)
    /\ UNCHANGED host

\* "Flush buffers", "Envia sequencia de 0xCA", "Reenvia comando"
SendRecovery ==
    \E r \in RecoverRequests, n \in 1..MaxRun : HostSend(r, Run(n), MaxRecoverSends)

NextRecover == SendTruncated \/ SendRecovery \/ ArriveAll \/ Frame

SpecRecover == Init /\ [][NextRecover]_vars

\* C19 (cross-peer resynchronization): whatever state an earlier exchange
\* left the framer in, once the target has read the host's run of 0xCA bytes
\* (of any length) and the complete request resent after it, the executor has
\* run the request assembled from exactly the resent packet and its response
\* has been written.
CrossPeerResync ==
    (Settled /\ IsRun(req.pre) /\ req.cmd \in Served) =>
        /\ exec.ran
        /\ AssembledFrom(exec.asm, Packet(req))
        /\ tx # <<>>
        /\ fr.destraState = WAIT_START_HIGH

\* ------------------------------------------------------------------------
\* Specification: the host protocol peer, with its timeout and single retry
\* ------------------------------------------------------------------------
\* the documented PEEK and POKE and an address error
HostRequests ==
    { Request(CMD_PEEK, 260, 2, <<>>),
      Request(CMD_POKE, 260, 2, <<4, 0>>),
      Request(CMD_PEEK, 2304, 1, <<>>) }

\* the requests of its caller the host starts
MaxHostWrites == 2

Awaiting == {"AwaitingResponse", "AwaitingRetry"}

\* nothing of the host's packet is left to be read by the target
Quiet == wire = <<>> /\ rx = <<>>

\* the blocking read is satisfied: 4 bytes for an error, 4 + size for success
ResponseComplete(r, bytes) ==
    /\ Len(bytes) >= 4
    /\ SubSeq(bytes, 1, 3) = <<MAGIC_HIGH, MAGIC_LOW, r.cmd>>
    /\ Len(bytes) = IF bytes[4] = STATUS_SUCCESS THEN 4 + r.size ELSE 4

\* the caller asks for a request: the host builds the packet and writes it
Call ==
    /\ host.state = "Idle"
    /\ \E r \in HostRequests : HostWrite(r, <<>>, Packet(r), MaxHostWrites)
    /\ host' = [state |-> "AwaitingResponse", sent |-> 1, resyncs |-> 0]

\* bytes of the packet are lost on the way to the target
LoseRequestBytes ==
    /\ host.state \in Awaiting
    /\ wire # <<>>
    /\ \E k \in 0..(Len(wire) - 1) : wire' = SubSeq(wire, 1, k)
    /\ UNCHANGED <<impl, layout, fr, mem, pf, rx, tx, exec, ub, req, nreq, pokes, lastCmds,
                   okRun, host>>

\* bytes of the response are lost on the way to the host
LoseResponseBytes ==
    /\ host.state \in Awaiting
    /\ tx # <<>>
    /\ \E k \in 0..(Len(tx) - 1) : tx' = SubSeq(tx, 1, k)
    /\ UNCHANGED <<impl, layout, fr, mem, pf, rx, wire, exec, ub, req, nreq, pokes, lastCmds,
                   okRun, host>>

\* the read returns the expected response
Receive ==
    /\ host.state \in Awaiting
    /\ Quiet
    /\ ResponseComplete(req, tx)
    /\ host' = [host EXCEPT !.state = "Success"]
    /\ UNCHANGED <<impl, layout, fr, mem, pf, rx, wire, tx, exec, ub, req, nreq, pokes,
                   lastCmds, okRun>>

OnTimeoutAlwaysRetry(h) == [h EXCEPT !.state = "TimedOut"]

OnTimeoutKeepWaiting(h) == h

\* a timeout of the first exchange starts the recovery, a timeout of the
\* retried exchange is a communication failure
OnTimeout(h) ==
    IF h.state = "AwaitingResponse"
    THEN [h EXCEPT !.state = "TimedOut"]
    ELSE [h EXCEPT !.state = "Failed"]

\* the read ends without the expected response
Timeout ==
    /\ host.state \in Awaiting
    /\ Quiet
    /\ ~ResponseComplete(req, tx)
    /\ host' = OnTimeout(host)
    /\ UNCHANGED <<impl, layout, fr, mem, pf, rx, wire, tx, exec, ub, req, nreq, pokes,
                   lastCmds, okRun>>

\* the stream is declared desynchronized: buffered input is discarded
Flush ==
    /\ host.state = "TimedOut"
    /\ tx' = <<>>
    /\ host' = [host EXCEPT !.state = "Resyncing", !.resyncs = host.resyncs + 1]
    /\ UNCHANGED <<impl, layout, fr, mem, pf, rx, wire, exec, ub, req, nreq, pokes, lastCmds,
                   okRun>>

\* a run of 0xCA, then the original request once more
Resend ==
    /\ host.state = "Resyncing"
    /\ \E n \in 1..MaxRun :
          HostWrite(Request(req.cmd, req.addr, req.size, req.value), Run(n),
                    Packet(req), MaxHostWrites + 1)
    /\ host' = [host EXCEPT !.state = "AwaitingRetry", !.sent = host.sent + 1]

\* the result, or the communication failure, is handed to the caller
Return ==
    /\ host.state \in {"Success", "Failed"}
    /\ host' = IdleHost
    /\ UNCHANGED <<impl, layout, fr, mem, pf, rx, wire, tx, exec, ub, req, nreq, pokes,
                   lastCmds, okRun>>

NextHost ==
    \/ Call \/ LoseRequestBytes \/ LoseResponseBytes \/ Receive \/ Timeout
    \/ Flush \/ Resend \/ Return \/ ArriveAll \/ Frame

SpecHost == InitInstrumented /\ [][NextHost]_vars

HostEdges ==
    { <<"Idle", "AwaitingResponse">>,
      <<"AwaitingResponse", "Success">>, <<"AwaitingResponse", "TimedOut">>,
      <<"TimedOut", "Resyncing">>, <<"Resyncing", "AwaitingRetry">>,
      <<"AwaitingRetry", "Success">>, <<"AwaitingRetry", "Failed">>,
      <<"Success", "Idle">>, <<"Failed", "Idle">> }

TargetStep == ArriveAll \/ Frame

HostStep == Receive \/ Timeout \/ Flush \/ Resend

HostFairness == WF_vars(TargetStep) /\ WF_vars(HostStep)

SpecHostFair == SpecHost /\ HostFairness

InExchange == host.state \in {"AwaitingResponse", "TimedOut", "Resyncing", "AwaitingRetry"}

\* C21 (host termination): every exchange the host has started ends in
\* Success or in Failed, the failure surfaced to the caller, also when bytes
\* of the request or of the response are lost and the target answers nothing
\* or a truncated packet.
HostTerminates == InExchange ~> host.state \in {"Success", "Failed"}

\* the retried exchange ended in Failed on a truncated response
HostTerminatesReached ==
    /\ host.state = "Failed"
    /\ tx # <<>>
    /\ ~ResponseComplete(req, tx)

\* ------------------------------------------------------------------------
\* Properties of the reference build's value buffer
\* ------------------------------------------------------------------------
\* C24 (reference build, buffer bound): no byte is stored to
\* destraValueBuffer at an index of 8 or more.
RefValueBufferGuarded == impl = "ref" => ~ub

\* ------------------------------------------------------------------------
\* Specification: requests with every status, and POKEs longer than the buffer
\* ------------------------------------------------------------------------
\* 14 value bytes: the first 8 fill destraValueBuffer; where the parser
\* globals lie behind it in reverse declaration order, bytes 9..13 rewrite
\* addressHigh, addressLow, destraSize and destraAddress with the values they
\* already hold, and byte 14 lands on destraCommand.
LongValue == <<4, 0, 18, 52, 86, 120, 154, 188, 1, 4, 14, 4, 1, 0>>

\* a success, an address error and a size error of either command, a POKE of
\* 9 bytes, the POKE of 14 bytes, and a drain
OverrunRequests ==
    { Request(CMD_PEEK, 260, 2, <<>>),
      Request(CMD_PEEK, 2304, 2, <<>>),
      Request(CMD_PEEK, 260, 9, <<>>),
      Request(CMD_POKE, 260, 2, <<4, 0>>),
      Request(CMD_POKE, 255, 2, <<4, 0>>),
      Request(CMD_POKE, 260, 9, PlainValue),
      Request(CMD_POKE, 260, 14, LongValue),
      PerfLogRequest }

MaxOverrunRequests == 2

SendOverrun == \E r \in OverrunRequests : HostSend(r, <<>>, MaxOverrunRequests)

NextOverrun == SendOverrun \/ ArriveAll \/ Frame

SpecOverrun == Init /\ [][NextOverrun]_vars

\* one response packet for the request assembled in f
OnePacket(resp, f) ==
    /\ Len(resp) >= 4
    /\ SubSeq(resp, 1, 3) = <<MAGIC_HIGH, MAGIC_LOW, f.destraCommand>>
    /\ resp[4] \in {STATUS_SUCCESS, STATUS_ADDRESS_RANGE_ERROR, STATUS_SIZE_ERROR}
    /\ Len(resp) = IF f.destraCommand = CMD_GET_PERF_LOG THEN 5 + 16 * resp[5]
                   ELSE IF resp[4] = STATUS_SUCCESS THEN 4 + f.destraSize
                   ELSE 4

\* this destraHandler call entered the PROCESS_REQUEST block
EntersProcessRequest == exec'.runs = exec.runs + 1

\* C22 (errors never halt the protocol): a destraHandler call that enters
\* PROCESS_REQUEST writes exactly one response packet, with whatever status,
\* after the echo of the bytes it read, and returns with the framer in
\* WAIT_START_HIGH.
ErrorsNeverHalt ==
    [][ EntersProcessRequest =>
          /\ OnePacket(exec'.resp, exec'.asm)
          /\ Len(tx') = Len(tx) + Len(exec'.resp)
                        + (IF impl = "ref" THEN Len(rx) - Len(rx') ELSE 0)
          /\ SubSeq(tx', Len(tx') - Len(exec'.resp) + 1, Len(tx')) = exec'.resp
          /\ fr'.destraState = WAIT_START_HIGH ]_vars

\* ------------------------------------------------------------------------
\* Properties of one destraHandler call
\* ------------------------------------------------------------------------
\* the parser globals after one switch pass for each of the bytes, in order
RECURSIVE StepsOver(_, _)
StepsOver(f, bytes) ==
    IF bytes = <<>>
    THEN f
    ELSE StepsOver(FramerStep(impl, layout, f, Head(bytes)).f, Tail(bytes))

\* the call read the first k bytes queued and left the others
Consumed(k) ==
    /\ rx' = SubSeq(rx, k + 1, Len(rx))
    /\ \A j \in 0..(k - 1) : StepsOver(fr, SubSeq(rx, 1, j)).destraState # PROCESS_REQUEST
    /\ \E g \in {StepsOver(fr, SubSeq(rx, 1, k))} :
          IF g.destraState = PROCESS_REQUEST
          THEN fr' = AfterDispatch(impl, g)
          ELSE k = Len(rx) /\ fr' = g

\* a step of loop() that found bytes queued: nothing arrives meanwhile
HandlerCall == wire' = wire /\ rx # <<>> /\ rx' # rx

\* C23 (non-blocking handler): a destraHandler call reads some of the bytes
\* queued when it runs and no others, makes one pass through the switch for
\* each byte read, stops at the first byte that completes a request or when
\* the queue is empty, and does not return in PROCESS_REQUEST.
NonBlockingHandler ==
    [][ HandlerCall =>
          /\ \E k \in 1..Len(rx) : Consumed(k)
          /\ fr'.destraState # PROCESS_REQUEST ]_vars

\* the call found two packets queued, stopped after the first and answered it
NonBlockingHandlerReached ==
    /\ nreq = 1
    /\ wire = <<>>
    /\ exec.ran
    /\ rx = Packet(req)
    /\ fr.destraState = WAIT_START_HIGH

\* ------------------------------------------------------------------------
\* Specification: completed and aborted requests on an empty and a full log
\* ------------------------------------------------------------------------
\* a success, a size error and an address error
RecordRequests ==
    { Request(CMD_PEEK, 260, 2, <<>>),
      Request(CMD_PEEK, 260, 9, <<>>),
      Request(CMD_POKE, 2304, 2, <<4, 0>>) }

\* a command byte the build does not serve
UnknownCommand == Request(240, 260, 2, <<>>)

\* the packet with its second magic byte damaged
BadMagic(pkt) == [pkt EXCEPT ![2] = 255]

MaxRecordRequests == 102

\* the log holds nothing, or the cursor stands at the guarded bound
LogAtEdge == pf.perfIndex \in {0, PERF_GUARD}

SendRecord == \E r \in RecordRequests : HostSend(r, <<>>, MaxRecordRequests)

\* packets the framer drops, sent on an empty and on a full log
SendAborted ==
    /\ LogAtEdge
    /\ \/ HostSend(UnknownCommand, <<>>, MaxRecordRequests)
       \/ \E r \in RecordRequests :
             /\ HostWrite(r, <<>>, BadMagic(Packet(r)), MaxRecordRequests)
             /\ UNCHANGED host

\* the log is read when empty and when full
DrainAtEdge == LogAtEdge /\ HostSend(PerfLogRequest, <<>>, MaxRecordRequests)

NextRecord == SendRecord \/ SendAborted \/ DrainAtEdge \/ ArriveAll \/ Frame

SpecRecord == InitInstrumented /\ [][NextRecord]_vars

\* the cursor registerPerformanceStats() finds in a call that serves cmd
CursorFound(cmd) == IF cmd = CMD_GET_PERF_LOG THEN 0 ELSE pf.perfIndex

SizeRejectedInFramer ==
    [][ (HandlerCall /\ fr.destraState = WAIT_SIZE /\ SizeInvalid(Head(rx))) =>
            /\ fr'.destraState = WAIT_START_HIGH
            /\ ~exec'.ran ]_vars

\* ------------------------------------------------------------------------
\* Properties of the outbound stream
\* ------------------------------------------------------------------------
\* the response a destraHandler call wrote, if it entered PROCESS_REQUEST
ResponseWritten == IF EntersProcessRequest THEN exec'.resp ELSE <<>>

\* the bytes a destraHandler call read
BytesRead == SubSeq(rx, 1, Len(rx) - Len(rx'))

\* C27 (echo): a destraHandler call writes every byte it reads back to the
\* host, once and in order, ahead of the response if it writes one.
EchoesEveryByte ==
    [][ HandlerCall => tx' = tx \o BytesRead \o ResponseWritten ]_vars

\* ------------------------------------------------------------------------
\* Specification: the instrumented build, packets back to back, some dropped
\* ------------------------------------------------------------------------
\* the documented PEEK and POKE, an address error, a drain, and two packets
\* the framer drops
StreamRequests ==
    { Request(CMD_PEEK, 260, 2, <<>>),
      Request(CMD_POKE, 260, 2, <<4, 0>>),
      Request(CMD_PEEK, 2304, 1, <<>>),
      PerfLogRequest,
      UnknownCommand }

MaxStreams == 2

\* the host writes the packet of r1, whole, damaged or cut short, and then
\* the packet of r2
SendStream ==
    \E r1 \in StreamRequests, r2 \in StreamRequests :
        \E first \in {Packet(r1), BadMagic(Packet(r1)), SubSeq(Packet(r1), 1, 2)} :
            HostSend(r2, first, MaxStreams)

NextStream == SendStream \/ ArriveAll \/ Frame

SpecStream == InitInstrumented /\ [][NextStream]_vars

WindowConfinement ==
    \A a \in exec.reads \cup exec.writes : a >= 256 /\ a <= 2303

\* ------------------------------------------------------------------------
\* Properties of target memory
\* ------------------------------------------------------------------------
\* the addresses whose contents differ between this state and the next
Changed == {a \in DOMAIN mem \cup DOMAIN mem' : MemRead(mem', a) # MemRead(mem, a)}

\* C31 (memory frame): target memory changes only in a destraHandler call
\* that completes a POKE answered SUCCESS, and then only at address ..
\* address + size - 1; a PEEK, a GET_PERF_LOG, a request answered with an
\* error status, an aborted parse and every other step leave it unchanged.
MemoryFrame ==
    [][ /\ Changed # {} =>
              /\ HandlerCall
              /\ EntersProcessRequest
              /\ exec'.asm.destraCommand = CMD_POKE
              /\ StatusOf(exec'.resp) = STATUS_SUCCESS
              /\ Changed \subseteq Cells(exec'.asm.destraAddress, exec'.asm.destraSize)
        /\ mem' # mem => exec'.writes # {}
        /\ (EntersProcessRequest /\ StatusOf(exec'.resp) # STATUS_SUCCESS) => mem' = mem
        /\ (EntersProcessRequest /\ exec'.asm.destraCommand # CMD_POKE) => mem' = mem ]_vars

\* a byte of noise and a dropped request, then the documented POKE: 04 00 at
\* 0x0104 and nothing else stored
MemoryFrameReached ==
    /\ nreq = 2
    /\ Settled
    /\ req.cmd = CMD_POKE
    /\ exec.ran
    /\ exec.runs = 1
    /\ exec.resp = <<202, 254, 242, 0, 4, 0>>
    /\ DOMAIN mem = {260, 261}
    /\ mem[260] = 4 /\ mem[261] = 0

\* ------------------------------------------------------------------------
\* Specification: other main-loop work storing to the observed memory
\* ------------------------------------------------------------------------
\* a POKE, a POKE of one byte, a PEEK of the same cells and a rejected POKE
InterleaveRequests ==
    { Request(CMD_POKE, 260, 2, <<4, 0>>),
      Request(CMD_POKE, 261, 1, <<7>>),
      Request(CMD_PEEK, 260, 2, <<>>),
      Request(CMD_POKE, 2304, 2, <<4, 0>>) }

MaxInterleaved == 1

\* what calculation() may store in one loop() iteration: nothing, or one byte
\* into or next to the cells the requests name
WorkAddresses == {260, 261}

WorkValues == {165}

Works == {NoWork} \cup {a :> v : a \in WorkAddresses, v \in WorkValues}

SendInterleaved == \E r \in InterleaveRequests : HostSend(r, <<>>, MaxInterleaved)

\* a loop() iteration that finds bytes queued: destraHandler(), then calculation()
FrameThenWork == \E w \in Works : rx # <<>> /\ LoopWith(w)

NextInterleave == SendInterleaved \/ ArriveOne \/ FrameThenWork

SpecInterleave == Init /\ [][NextInterleave]_vars

\* C32 (cooperative interleaving): with other main-loop work storing to the
\* same memory between destraHandler calls only, the payload of every
\* successful POKE response is the value bytes the request carried.
PokeEchoesValue ==
    (exec.ran /\ exec.asm.destraCommand = CMD_POKE /\ StatusOf(exec.resp) = STATUS_SUCCESS) =>
        /\ req.cmd = CMD_POKE
        /\ Payload(exec.resp) = req.value
        /\ Len(exec.resp) = 4 + req.size

\* the POKE of 04 00 at 0x0104 was answered with 04 00, and calculation()
\* stored A5 at 0x0104 in the very iteration that answered it
PokeEchoesValueReached ==
    /\ nreq = 1
    /\ Settled
    /\ req.cmd = CMD_POKE /\ req.addr = 260
    /\ exec.ran
    /\ exec.resp = <<202, 254, 242, 0, 4, 0>>
    /\ exec.writes = {260, 261}
    /\ MemRead(mem, 260) = 165

\* ------------------------------------------------------------------------
\* Specification: loop() iterations that find no input
\* ------------------------------------------------------------------------
\* a PEEK, a POKE, a drain and a rejected PEEK
FrameRequests ==
    { Request(CMD_PEEK, 260, 2, <<>>),
      Request(CMD_POKE, 260, 2, <<4, 0>>),
      Request(CMD_PEEK, 255, 2, <<>>),
      PerfLogRequest }

MaxFrameRequests == 1

\* a pause of the host that outlasts the range of a 16-bit frame count by one
\* iteration less than 2^16
LongWait == 65535

\* single loop() iterations without input are explored up to this many
MaxIdleFrames == 4

\* the loop() iterations so far, as far as the state records them
FramesSoFar == IF impl = "test" THEN pf.frameCounter ELSE exec.since

SendFramed == \E r \in FrameRequests : HostSend(r, <<>>, MaxFrameRequests)

\* a loop() iteration that finds no byte queued
IdleFrame ==
    /\ rx = <<>>
    /\ FramesSoFar % LongWait < MaxIdleFrames
    /\ Loop

\* LongWait loop() iterations in a row that find no byte queued
IdleWait ==
    /\ rx = <<>>
    /\ FramesSoFar < LongWait
    /\ LoopThenIdle(NoWork, LongWait - 1)

NextFrames == SendFramed \/ ArriveOne \/ ArriveAll \/ Frame \/ IdleFrame \/ IdleWait

SpecFrames == Init /\ [][NextFrames]_vars

\* the telemetry record of the host's last request
RequestRecord == pf.perfBuffer[exec.store]

\* the instrumented build completed the last request, sent to an idle framer,
\* and recorded it
Recorded ==
    /\ impl = "test"
    /\ req.clean
    /\ exec.ran
    /\ exec.store >= 0

\* C33 as stated: commandFrameCounterDelta of the record is the number of
\* loop() iterations between the one that consumed the first 0xCA of the
\* request and the one that completed it.
DeltaCountsIterations ==
    Recorded => RequestRecord.commandFrameCounterDelta = exec.since

\* C33, amended: commandFrameCounterDelta is that number of iterations modulo
\* 2^16, hence the number itself below 65536 iterations, and 0 when the whole
\* packet was consumed within one destraHandler call.
DeltaCountsIterationsMod ==
    Recorded =>
        /\ RequestRecord.commandFrameCounterDelta = exec.since % 65536
        /\ exec.since >= 0

\* a PEEK whose first byte was consumed 65537 iterations before its last one
\* is recorded with delta 1
DeltaCountsIterationsModReached ==
    /\ Recorded
    /\ req.cmd = CMD_PEEK
    /\ exec.since = 65537
    /\ RequestRecord.commandFrameCounterDelta = 1

\* a POKE consumed within one destraHandler call is recorded with delta 0
DeltaZeroReached ==
    /\ Recorded
    /\ req.cmd = CMD_POKE
    /\ exec.since = 0
    /\ RequestRecord.commandFrameCounterDelta = 0
    /\ pf.frameCounter > 2

\* a destraHandler call made while no byte is queued
IdleCall == rx = <<>> /\ wire' = wire /\ nreq' = nreq

\* C34 (no framer timeout): a destraHandler call that finds no input leaves
\* the framer state and every parser field unchanged, emits nothing, stores
\* nothing and executes nothing, however many such calls were made before.
NoFramerTimeout ==
    [][ IdleCall =>
            /\ fr' = fr
            /\ tx' = tx
            /\ mem' = mem
            /\ rx' = <<>>
            /\ exec'.runs = exec.runs
            /\ ub' = ub ]_vars

\* the framer holds a partly received packet, address assembled and size
\* awaited, after more than 65535 calls that found no input
NoFramerTimeoutReached ==
    /\ fr.destraState = WAIT_SIZE
    /\ fr.destraAddress = 260
    /\ rx = <<>>
    /\ ~exec.ran
    /\ exec.since > LongWait
    /\ tx = <<>>

\* ------------------------------------------------------------------------
\* Specification: two packets arriving split in every way
\* ------------------------------------------------------------------------
\* a PEEK, a POKE whose first value byte is 0xCA, and a drain
ChunkRequests ==
    { Request(CMD_PEEK, 260, 2, <<>>),
      Request(CMD_POKE, 260, 2, <<202, 0>>),
      PerfLogRequest }

MaxChunked == 1

\* the host writes the packets of r1 and r2 back to back
SendChunked ==
    \E r1 \in ChunkRequests, r2 \in ChunkRequests : HostSend(r2, Packet(r1), MaxChunked)

\* any number of the bytes in flight arrive before the next loop() iteration
ArriveSome == \E n \in 1..Len(wire) : Arrive(n)

NextChunks == SendChunked \/ ArriveSome \/ Frame

SpecChunks == Init /\ [][NextChunks]_vars

\* loop() iterations on the whole input queued at once, until it is consumed:
\* the memory left and what each destraHandler call wrote
RECURSIVE ServeAll(_, _, _, _, _, _)
ServeAll(im, lay, f, m, p, input) ==
    IF input = <<>>
    THEN [mem |-> m, outs |-> <<>>]
    ELSE LET h == destraHandler(im, lay, f, m, IF im = "test" THEN FrameStart(p) ELSE p, input)
             t == ServeAll(im, lay, h.f, h.mem,
                           IF im = "test" THEN FrameEnd(h.perf) ELSE h.perf, h.rest)
         IN [mem |-> t.mem, outs |-> <<h.out>> \o t.outs]

\* a response with the frame-counter and timing fields of its telemetry
\* records blanked: of each 16-byte record only commandSequence is kept
Blur(pkt) ==
    IF impl = "test" /\ Len(pkt) >= 5 /\ pkt[3] = CMD_GET_PERF_LOG
    THEN [i \in 1..Len(pkt) |-> IF i > 5 /\ ((i - 6) % 16) \notin {8, 9} THEN 0 ELSE pkt[i]]
    ELSE pkt

\* the stream cut into pieces as long as those of `outs`, each piece blurred
RECURSIVE BlurLike(_, _)
BlurLike(stream, outs) ==
    IF outs = <<>> THEN stream
    ELSE Blur(SubSeq(stream, 1, Len(Head(outs))))
            \o BlurLike(SubSeq(stream, Len(Head(outs)) + 1, Len(stream)), Tail(outs))

\* what the first input yields when it is queued whole
Whole == ServeAll(impl, layout, InitFramer, <<>>, InitPerf, req.pre \o Packet(req))

\* C35 (chunking independence): however the input was split across
\* destraHandler calls, the bytes written and the memory left are those of the
\* input queued whole, but for the frame-counter and timing fields of
\* telemetry records.
ChunkingIndependence ==
    (nreq = 1 /\ wire = <<>> /\ rx = <<>>) =>
        /\ mem = Whole.mem
        /\ Len(tx) = Len(Flatten(Whole.outs))
        /\ BlurLike(tx, Whole.outs) = Flatten([i \in DOMAIN Whole.outs |-> Blur(Whole.outs[i])])

\* a POKE and a drain, consumed in more than three destraHandler calls: the
\* drain response carries the record of the POKE, whose timing fields differ
\* from those of the input queued whole
ChunkingIndependenceReached ==
    /\ impl = "test"
    /\ nreq = 1 /\ wire = <<>> /\ rx = <<>>
    /\ req.pre = <<202, 254, 242, 4, 1, 2, 202, 0>>
    /\ req.cmd = CMD_GET_PERF_LOG
    /\ pf.frameCounter > 3
    /\ Len(tx) = 6 + 5 + 16
    /\ tx # Flatten(Whole.outs)
    /\ mem = Whole.mem

\* ------------------------------------------------------------------------
\* Address assembly
\* ------------------------------------------------------------------------
\* the parser globals in WAIT_ADDRESS_LOW with the address fields of an
\* earlier packet at 0xBEEF still in place
StaleAddress ==
    [InitFramer EXCEPT !.destraState = WAIT_ADDRESS_LOW, !.destraCommand = CMD_PEEK,
                       !.addressLow = 239, !.addressHigh = 190, !.destraAddress = 48879]

\* the parser globals after the bytes lo and hi were consumed from there
Assembled(lo, hi) ==
    FramerStep(impl, layout, FramerStep(impl, layout, StaleAddress, lo).f, hi).f

\* C36 (little-endian address assembly): whatever the two address bytes, the
\* framer leaves WAIT_ADDRESS_HIGH with destraAddress = low + 256 * high, a
\* value in 0..0xFFFF, and the address a PEEK or POKE is executed with is the
\* one its own packet carried, not that of an earlier packet.
AddressAssembly ==
    /\ nreq = 0 =>
          \A lo \in Byte, hi \in Byte :
              /\ Assembled(lo, hi).destraAddress = lo + 256 * hi
              /\ Assembled(lo, hi).destraAddress \in 0..65535
              /\ Assembled(lo, hi).destraState = WAIT_SIZE
    /\ (exec.ran /\ exec.runs = 1 /\ req.clean /\ req.cmd \in {CMD_PEEK, CMD_POKE}) =>
          /\ exec.asm.destraAddress = req.addr
          /\ exec.asm.destraAddress = Packet(req)[4] + 256 * Packet(req)[5]
          /\ exec.asm.destraAddress \in 0..65535

\* a PEEK at 0x08FF (bytes FF 08) executed with address 0x08FF after a POKE
\* at 0x0100 had been executed
AddressAssemblyReached ==
    /\ nreq = 2
    /\ Settled
    /\ req.clean
    /\ req.cmd = CMD_PEEK /\ req.addr = 2303
    /\ Packet(req)[4] = 255 /\ Packet(req)[5] = 8
    /\ exec.ran
    /\ exec.asm.destraAddress = 2303
    /\ \E q \in pokes : q.addr = 256

\* ------------------------------------------------------------------------
\* Specification: the same input given to both builds
\* ------------------------------------------------------------------------
\* PEEK and POKE answered with each status, POKEs of 0, 8 and 9 bytes, a
\* drain and an unknown command
TwinRequests ==
    { Request(CMD_PEEK, 260, 2, <<>>),
      Request(CMD_PEEK, 2304, 1, <<>>),
      Request(CMD_PEEK, 260, 9, <<>>),
      Request(CMD_POKE, 260, 2, <<4, 0>>),
      Request(CMD_POKE, 260, 0, <<>>),
      Request(CMD_POKE, 256, 8, SubSeq(PacketLikeValue, 1, 8)),
      Request(CMD_POKE, 260, 9, PlainValue),
      PerfLogRequest,
      UnknownCommand }

MaxTwins == 1

\* the host writes the packets of r1 and r2 back to back
SendTwin ==
    \E r1 \in TwinRequests, r2 \in TwinRequests : HostSend(r2, Packet(r1), MaxTwins)

NextTwin == SendTwin \/ ArriveAll \/ Frame

SpecTwin == Init /\ [][NextTwin]_vars

\* build im fed the input one byte per destraHandler call: for each byte the
\* framer state and command before it, the framer state after the call,
\* whether the call executed a request, the response it wrote and the memory
RECURSIVE ByteTrace(_, _, _, _, _, _)
ByteTrace(im, lay, f, m, p, input) ==
    IF input = <<>> THEN <<>>
    ELSE CHOOSE t \in
            { <<[pre |-> f.destraState, cmd |-> f.destraCommand, byte |-> Head(input),
                 post |-> h.f.destraState, ran |-> h.ran, resp |-> h.resp,
                 mem |-> h.mem]>>
                \o ByteTrace(im, lay, h.f, h.mem,
                             IF im = "test" THEN FrameEnd(h.perf) ELSE h.perf, Tail(input))
              : h \in {destraHandler(im, lay, f, m,
                                     IF im = "test" THEN FrameStart(p) ELSE p,
                                     <<Head(input)>>)} } : TRUE

\* the host's first input from power-up, as each build takes it
TwinInput == req.pre \o Packet(req)

RefTrace(lay) == ByteTrace("ref", lay, InitFramer, <<>>, InitPerf, TwinInput)

TestTrace == ByteTrace("test", LayoutNone, InitFramer, <<>>, InitPerf, TwinInput)

\* no 0xF3 arrives in WAIT_COMMAND and no POKE declares more than 8 bytes
PeekPokeTraffic(t) ==
    \A i \in DOMAIN t :
        /\ ~(t[i].pre = WAIT_COMMAND /\ t[i].byte = CMD_GET_PERF_LOG)
        /\ ~(t[i].pre = WAIT_SIZE /\ t[i].cmd = CMD_POKE /\ t[i].byte > MAX_SIZE)

\* what the claim compares: framer state, execution, response, memory
Observed(e) == [post |-> e.post, ran |-> e.ran, resp |-> e.resp, mem |-> e.mem]

\* C37 (the two builds agree on PEEK/POKE traffic): on an input in which no
\* 0xF3 arrives in WAIT_COMMAND and no POKE declares a size above 8, the
\* reference and the instrumented framer pass through the same states byte by
\* byte, execute at the same bytes, write the same response packets and leave
\* the same memory; and the build that ran ends where its trace ends.
BuildsAgree ==
    nreq = 1 =>
        /\ PeekPokeTraffic(TestTrace) =>
              \A lay \in Layouts :
                  /\ Len(RefTrace(lay)) = Len(TestTrace)
                  /\ \A i \in DOMAIN TestTrace :
                        Observed(RefTrace(lay)[i]) = Observed(TestTrace[i])
        /\ Settled =>
              LET own == IF impl = "test" THEN TestTrace ELSE RefTrace(layout)
              IN /\ fr.destraState = own[Len(own)].post
                 /\ mem = own[Len(own)].mem

\* a POKE of 8 bytes that look like a packet and a PEEK behind it, both
\* executed: input within the scope of the claim, served by either build
BuildsAgreeReached ==
    /\ nreq = 1
    /\ Settled
    /\ req.pre = Packet(Request(CMD_POKE, 256, 8, SubSeq(PacketLikeValue, 1, 8)))
    /\ req.cmd = CMD_PEEK /\ req.size = 2
    /\ PeekPokeTraffic(TestTrace)
    /\ exec.runs = 2
    /\ exec.resp = <<202, 254, 241, 0, 1, 2>>
    /\ TestTrace[14].ran /\ TestTrace[20].ran
    /\ MemRead(mem, 256) = 202

\* ------------------------------------------------------------------------
\* The stored command
\* ------------------------------------------------------------------------
\* C38 (command invariant): in both builds the stored command is PEEK or POKE
\* while the framer is in WAIT_ADDRESS_LOW, WAIT_ADDRESS_HIGH or WAIT_SIZE,
\* it is POKE while the framer is in WAIT_VALUE, and PROCESS_REQUEST is
\* entered only with a command the dispatcher of the build handles.
CommandInvariant ==
    /\ fr.destraState \in {WAIT_ADDRESS_LOW, WAIT_ADDRESS_HIGH, WAIT_SIZE} =>
          fr.destraCommand \in {CMD_PEEK, CMD_POKE}
    /\ fr.destraState = WAIT_VALUE => fr.destraCommand = CMD_POKE
    /\ exec.ran => exec.asm.destraCommand \in Served

\* the same while no store went past destraValueBuffer
CommandInvariantInBounds == ~ub => CommandInvariant

====
